---- MODULE Spec2Model ----
(***************************************************************************)
(* Word-boundary detection and in-place word replacement of the spell      *)
(* checker: SpellChecker.extractWord, offsetToWordCursor,                  *)
(* validateLineCursor (renderer/spellchecker) and                          *)
(* ContentState.replaceWordInline / _replaceCurrentWordInlineUnsafe        *)
(* (muya/lib/contentState/core.js).                                        *)
(*                                                                         *)
(* Texts are sequences of one-character strings (the backtick and the      *)
(* apostrophe are written "<backtick>" and "<apostrophe>"); JavaScript     *)
(* indexes are 0-based: the character at index i of text is text[i + 1].   *)
(***************************************************************************)
EXTENDS Integers, Sequences, FiniteSets, TLC

\* ------------------------------------------------------------------------
\* Bounds of the model
\* ------------------------------------------------------------------------

\* longest enumerated text handed to extractWord
MaxLen == 4

\* longest enumerated text of a block of the document
MaxTextLen == 2

\* number of mutations applied to a cursor returned by offsetToWordCursor
MaxMutations == 2

\* ------------------------------------------------------------------------
\* Character classes
\* ------------------------------------------------------------------------

\* \d
Digits == {"0", "1", "2", "3", "4", "5", "6", "7", "8", "9"}

\* the letters of \w (together with Digits)
Letters ==
  {"a", "b", "c", "d", "e", "f", "g", "h", "i", "j", "k", "l", "m", "n",
   "o", "p", "q", "r", "s", "t", "u", "v", "w", "x", "y", "z", "_"}

\* \w
WordChars == Letters \cup Digits

\* \s
Whitespace == {" ", "\t", "\n"}

\* The punctuation listed between the brackets of WORD_SEPARATORS, one
\* character each, as the comment above the regular expression lists them.
ListedPunctuation ==
  {"<backtick>", "~", "!", "@", "#", "$", "%", "^", "&", "*", "(", ")", "-", "=",
   "+", "[", "{", "]", "}", "\\", "|", ";", ":", "<apostrophe>", "\"", ",", ".", "<",
   ">", "/", "?"}

\* In the character class of WORD_SEPARATORS and WORD_DEFINITION the '-' is
\* not escaped: ")-=" is the range from ')' (0x29) to '=' (0x3D).
RangeParenToEquals ==
  {")", "*", "+", ",", "-", ".", "/"} \cup Digits \cup {":", ";", "<", "="}

\* The set of characters the character class of WORD_SEPARATORS matches
\* (WORD_DEFINITION negates the same class).
SeparatorChars ==
  {"<backtick>", "~", "!", "@", "#", "$", "%", "^", "&", "*", "("}
    \cup RangeParenToEquals
    \cup {"+", "[", "{", "]", "}", "\\", "|", ";", ":", "<apostrophe>", "\"", ",", ".",
          "<", ">", "/", "?"}
    \cup Whitespace

\* ------------------------------------------------------------------------
\* String helpers (JavaScript semantics, 0-based indexes)
\* ------------------------------------------------------------------------

At(text, i) == text[i + 1]

\* text.slice(from, to) for 0 <= from, to
Slice(text, from, to) ==
  IF from >= to \/ from >= Len(text) THEN << >>
  ELSE SubSeq(text, from + 1, IF to > Len(text) THEN Len(text) ELSE to)

RECURSIVE LastIndexOfFrom(_, _, _)
LastIndexOfFrom(text, ch, k) ==
  IF k < 0 THEN -1
  ELSE IF At(text, k) = ch THEN k
  ELSE LastIndexOfFrom(text, ch, k - 1)

\* first separator at or before index k, whatever the character asked for
RECURSIVE LastSeparatorFrom(_, _)
LastSeparatorFrom(text, k) ==
  IF k < 0 THEN -1
  ELSE IF At(text, k) \in SeparatorChars THEN k
  ELSE LastSeparatorFrom(text, k - 1)

\* LastIndexOf looking for the nearest separator instead of ch
LastIndexOfSeparator(text, ch, fromIndex) ==
  LET f == IF fromIndex < 0 THEN 0
           ELSE IF fromIndex > Len(text) - 1 THEN Len(text) - 1
           ELSE fromIndex
  IN LastSeparatorFrom(text, f)

\* text.lastIndexOf(ch, fromIndex): fromIndex is clamped into [0, length]
LastIndexOf(text, ch, fromIndex) ==
  LET f == IF fromIndex < 0 THEN 0
           ELSE IF fromIndex > Len(text) - 1 THEN Len(text) - 1
           ELSE fromIndex
  IN LastIndexOfFrom(text, ch, f)

\* first index >= i whose character is not in S (Len(text) when none)
RECURSIVE SkipWhile(_, _, _)
SkipWhile(text, i, S) ==
  IF i < Len(text) /\ At(text, i) \in S THEN SkipWhile(text, i + 1, S) ELSE i

\* first index >= i whose character is in S (Len(text) when none)
RECURSIVE SkipUntil(_, _, _)
SkipUntil(text, i, S) ==
  IF i < Len(text) /\ At(text, i) \notin S THEN SkipUntil(text, i + 1, S) ELSE i

\* ------------------------------------------------------------------------
\* The two regular expressions
\* ------------------------------------------------------------------------

NoMatch == [found |-> FALSE, index |-> -1, lastIndex |-> 0]

\* First alternative of WORD_DEFINITION anchored at i: -?\d*\.\d\w*
\* The end index of the match, or -1.
NumberMatchEnd(text, i) ==
  LET p1 == IF i < Len(text) /\ At(text, i) = "-" THEN i + 1 ELSE i
      p2 == SkipWhile(text, p1, Digits)
  IN IF p2 + 1 < Len(text) /\ At(text, p2) = "." /\ At(text, p2 + 1) \in Digits
     THEN SkipWhile(text, p2 + 2, WordChars)
     ELSE -1

\* Second alternative of WORD_DEFINITION anchored at i: [^separators]+
\* The end index of the match, or -1.
RunMatchEnd(text, i) ==
  IF i < Len(text) /\ At(text, i) \notin SeparatorChars
  THEN SkipUntil(text, i, SeparatorChars)
  ELSE -1

\* WORD_DEFINITION.exec(text) with WORD_DEFINITION.lastIndex = lastIndex
RECURSIVE WordDefinitionExec(_, _)
WordDefinitionExec(text, lastIndex) ==
  IF lastIndex >= Len(text) THEN NoMatch
  ELSE LET n == NumberMatchEnd(text, lastIndex)
           r == RunMatchEnd(text, lastIndex)
       IN IF n >= 0 THEN [found |-> TRUE, index |-> lastIndex, lastIndex |-> n]
          ELSE IF r >= 0 THEN [found |-> TRUE, index |-> lastIndex, lastIndex |-> r]
          ELSE WordDefinitionExec(text, lastIndex + 1)

\* WORD_SEPARATORS.exec(text) with WORD_SEPARATORS.lastIndex = lastIndex
WordSeparatorsExec(text, lastIndex) ==
  LET i == SkipUntil(text, lastIndex, SeparatorChars)
  IN IF i < Len(text) THEN [found |-> TRUE, index |-> i, lastIndex |-> i + 1]
     ELSE NoMatch

\* ------------------------------------------------------------------------
\* SpellChecker.extractWord
\* ------------------------------------------------------------------------

Null == [found |-> FALSE, left |-> -1, right |-> -1, word |-> << >>]

\* offset after the clamping of the first lines of extractWord
ClampOffset(text, offset) ==
  IF offset < 0 THEN 0
  ELSE IF offset >= Len(text) THEN Len(text) - 1
  ELSE offset

\* The while loop over WORD_DEFINITION.exec: the value of `left` at its end.
RECURSIVE ScanLeft(_, _, _, _)
ScanLeft(text, offset, lastIndex, left) ==
  LET match == WordDefinitionExec(text, lastIndex)
  IN IF ~match.found THEN left
     ELSE IF match.index <= offset
          THEN ScanLeft(text, offset, match.lastIndex,
                        IF match.lastIndex > offset THEN match.index ELSE left)
          ELSE left

extractWord(text, offset0) ==
  IF Len(text) = 0 THEN Null
  ELSE LET offset == ClampOffset(text, offset0)
           left == ScanLeft(text, offset,
                            LastIndexOf(text, " ", offset - 1) + 1, -1)
           match == WordSeparatorsExec(text, offset)
           right == IF match.found THEN match.index ELSE -1
       IN IF left <= -1 THEN Null
          ELSE IF right < 0
               THEN [found |-> TRUE, left |-> left, right |-> Len(text),
                     word |-> Slice(text, left, Len(text))]
               ELSE [found |-> TRUE, left |-> left, right |-> right,
                     word |-> Slice(text, left, right)]

\* ------------------------------------------------------------------------
\* offsetToWordCursor
\* ------------------------------------------------------------------------

\* A position is [key, offset, block]; block is the key of the block object
\* the position refers to, or NoBlock.
NoBlock == "none"

offsetToWordCursor(lineCursor, left, right) ==
  [start |-> [lineCursor.start EXCEPT !.offset = left],
   end |-> [lineCursor.end EXCEPT !.offset = right]]

\* The same function on a heap of objects, where aliasing shows. A heap is
\* [pos, blk]: pos[i] is the position object i, [key, offset, block], whose
\* block is the index in blk of the block object it refers to, or NoRef;
\* blk[i] is the block object i, [text]. A cursor is [start, end] of indexes
\* of position objects.
NoRef == 0

\* deepClone(position) of @/util: a fresh position object with the fields of
\* the original, the object its block refers to copied as well. The result
\* is [heap, id]: the heap with the copy and the index of the copy.
deepClone(h, id) ==
  LET p == h.pos[id]
      newBlk == IF p.block # NoRef THEN Append(h.blk, h.blk[p.block])
                ELSE h.blk
      copy == [p EXCEPT !.block = IF p.block # NoRef THEN Len(newBlk)
                                  ELSE NoRef]
  IN [heap |-> [pos |-> Append(h.pos, copy), blk |-> newBlk],
      id |-> Len(h.pos) + 1]

\* offsetToWordCursorOnHeap without the copy of lineCursor.end
offsetToWordCursorSharedEnd(h, lineCursor, left, right) ==
  LET c1 == deepClone(h, lineCursor.start)
      start == c1.id
      end == lineCursor.end
      h1 == [c1.heap EXCEPT !.pos[start].offset = left]
      h2 == [h1 EXCEPT !.pos[end].offset = right]
  IN [heap |-> h2, cursor |-> [start |-> start, end |-> end]]

\* offsetToWordCursor(lineCursor, left, right) on heap h: [heap, cursor],
\* the heap after the call and the returned cursor.
offsetToWordCursorOnHeap(h, lineCursor, left, right) ==
  LET c1 == deepClone(h, lineCursor.start)
      c2 == deepClone(c1.heap, lineCursor.end)
      start == c1.id
      end == c2.id
      h1 == [c2.heap EXCEPT !.pos[start].offset = left]
      h2 == [h1 EXCEPT !.pos[end].offset = right]
  IN [heap |-> h2, cursor |-> [start |-> start, end |-> end]]

\* ------------------------------------------------------------------------
\* validateLineCursor
\* ------------------------------------------------------------------------

\* the value of a property that is not set
Undefined == "undefined"

\* A selection handed to validateLineCursor is
\*   [isNull, start, end, affiliation]
\* with start, end: [present, key, hasOffset, block],
\* block: [present, functionType, lang] and
\* affiliation: [present, types] (types: the `type` of each entry).
AbsentBlock ==
  [present |-> FALSE, functionType |-> Undefined, lang |-> Undefined]

AbsentPosition ==
  [present |-> FALSE, key |-> Undefined, hasOffset |-> FALSE,
   block |-> AbsentBlock]

AbsentAffiliation == [present |-> FALSE, types |-> << >>]

\* The first `if` of validateLineCursor: a chain of && that starts with
\* !selection. "TypeError" when evaluating it throws, "return" when the
\* condition is true, "pass" when it is false.
RangeCheck(sel) ==
  IF ~sel.isNull THEN "pass"      \* !selection is false: the chain is false
  ELSE "TypeError"                \* !selection is true: reads selection.start

\* "true", "false", or "TypeError" when the call throws
validateLineCursor(sel) ==
  IF RangeCheck(sel) = "TypeError" THEN "TypeError"
  ELSE IF RangeCheck(sel) = "return" THEN "false"
  ELSE IF ~sel.start.present THEN "TypeError"     \* startCursor.key
  ELSE IF ~sel.end.present THEN "TypeError"       \* endCursor.key
  ELSE IF sel.start.key # sel.end.key \/ ~sel.start.block.present
       THEN "false"
  ELSE IF /\ sel.start.block.functionType = "codeContent"
          /\ sel.start.block.lang # Undefined
       THEN "false"
  ELSE IF /\ sel.affiliation.present
          /\ Len(sel.affiliation.types) = 1
          /\ sel.affiliation.types[1] = "pre"
       THEN "false"
  ELSE "true"

\* ------------------------------------------------------------------------
\* ContentState.replaceWordInline
\* ------------------------------------------------------------------------

Min(a, b) == IF a < b THEN a ELSE b

Max(a, b) == IF a > b THEN a ELSE b

\* str.substr(start, length)
Substr(str, start, length) ==
  LET from == IF start < 0 THEN Max(Len(str) + start, 0)
              ELSE Min(start, Len(str))
      count == Max(0, Min(length, Len(str) - from))
  IN SubSeq(str, from + 1, from + count)

\* str.substr(start)
SubstrFrom(str, start) == Substr(str, start, Len(str))

\* The document tree is a function from the keys of its blocks to
\* [text, functionType, lang]; a block reference is the key of the block.
\* A cursor (line cursor, word cursor, this.cursor) is [start, end] of
\* positions.

\* PreconditionViolated without the check of the order of the offsets
PreconditionViolatedNoOrderCheck(bl, ln, wordCursor) ==
  \/ wordCursor.start.key # wordCursor.end.key
  \/ ln.start.key # ln.end.key
  \/ ln.start.key # wordCursor.end.key
  \/ ln.start.block = NoBlock
  \/ Len(bl[ln.start.block].text) < wordCursor.end.offset

\* "Validate cursor ranges": does one of the checks throw
PreconditionViolated(bl, ln, wordCursor) ==
  \/ wordCursor.start.key # wordCursor.end.key
  \/ ln.start.key # ln.end.key
  \/ wordCursor.start.offset > wordCursor.end.offset
  \/ ln.start.key # wordCursor.end.key
  \/ ln.start.block = NoBlock      \* lineStart.block.text of no block throws
  \/ Len(bl[ln.start.block].text) < wordCursor.end.offset

\* Splice taking the tail one character late
SpliceSkipsOne(str, left, right, replacement) ==
  Substr(str, 0, left) \o replacement \o SubstrFrom(str, right + 1)

\* block.text after "Replace word range with replacement"
Splice(str, left, right, replacement) ==
  Substr(str, 0, left) \o replacement \o SubstrFrom(str, right)

\* CaretAfter counting from the end of the word
CaretAfterRight(wordCursor, replacement) ==
  [wordCursor.start EXCEPT
     !.offset = wordCursor.end.offset + Len(replacement)]

\* the `cursor` of "Update cursor": wordStart with the offset moved behind
\* the replacement
CaretAfter(wordCursor, replacement) ==
  [wordCursor.start EXCEPT
     !.offset = wordCursor.start.offset + Len(replacement)]

\* one notification: its name with the text of the block and this.cursor at
\* the moment it is issued
Notification(name, str, cur) == [name |-> name, text |-> str, cursor |-> cur]

\* Notifications issued ahead of the splice and the cursor update
NotificationsBeforeSplice(before, after) ==
  <<Notification("partialRender", before.text, before.cursor),
    Notification("dispatchSelectionChange", before.text, before.cursor),
    Notification("dispatchChange", before.text, before.cursor)>>

\* The three calls that end replaceWordInline; before and after are
\* [text, cursor] at the entry of the function and behind "Update cursor".
Notifications(before, after) ==
  <<Notification("partialRender", after.text, after.cursor),
    Notification("dispatchSelectionChange", after.text, after.cursor),
    Notification("dispatchChange", after.text, after.cursor)>>

\* The state after replaceWordInline(line, wordCursor, replacement,
\* setCursor) called with document tree bl and this.cursor = cur:
\* [threw, blocks, cursor, line, log].
replaceWordInline(bl, cur, ln, wordCursor, replacement, setCursor) ==
  IF PreconditionViolated(bl, ln, wordCursor)
  THEN [threw |-> TRUE, blocks |-> bl, cursor |-> cur, line |-> ln,
        log |-> << >>]
  ELSE LET block == ln.start.block
           left == wordCursor.start.offset
           right == wordCursor.end.offset
           newText == Splice(bl[block].text, left, right, replacement)
           newBlocks == [bl EXCEPT ![block].text = newText]
           newPos == CaretAfter(wordCursor, replacement)
           newLine == IF setCursor THEN [start |-> newPos, end |-> newPos]
                      ELSE ln
           newCursor == IF setCursor THEN [start |-> newPos, end |-> newPos]
                        ELSE cur
       IN [threw |-> FALSE, blocks |-> newBlocks, cursor |-> newCursor,
           line |-> newLine,
           log |-> Notifications([text |-> bl[block].text, cursor |-> cur],
                                 [text |-> newText, cursor |-> newCursor])]

\* ------------------------------------------------------------------------
\* ContentState._replaceCurrentWordInlineUnsafe
\* ------------------------------------------------------------------------

\* this.getBlock(key)
getBlock(bl, key) == IF key \in DOMAIN bl THEN key ELSE NoBlock

\* the local `cursor` built from selection.getCursorRange(), as
\* validateLineCursor reads it
AsSelection(bl, cur) ==
  [isNull |-> FALSE,
   start |-> [present |-> TRUE, key |-> cur.start.key, hasOffset |-> TRUE,
              block |-> IF cur.start.block = NoBlock THEN AbsentBlock
                        ELSE [present |-> TRUE,
                              functionType |-> bl[cur.start.block].functionType,
                              lang |-> bl[cur.start.block].lang]],
   end |-> [present |-> TRUE, key |-> cur.end.key, hasOffset |-> TRUE,
            block |-> AbsentBlock],
   affiliation |-> AbsentAffiliation]

\* The state after _replaceCurrentWordInlineUnsafe(word, replacement) called
\* with document tree bl, this.cursor = cur and getCursorRange() = range:
\* [outcome, blocks, cursor, line, log], outcome being "true", "false" or
\* "threw".
replaceCurrentWordInlineUnsafe(bl, cur, range, word, replacement) ==
  LET local == [start |-> [range.start EXCEPT
                             !.block = getBlock(bl, range.start.key)],
                end |-> range.end]
      unchanged(result) ==
        [outcome |-> result, blocks |-> bl, cursor |-> cur, line |-> local,
         log |-> << >>]
  IN IF validateLineCursor(AsSelection(bl, local)) = "TypeError"
     THEN unchanged("threw")
     ELSE IF validateLineCursor(AsSelection(bl, local)) = "false"
     THEN unchanged("false")
     ELSE LET info == extractWord(bl[local.start.block].text,
                                  local.start.offset)
          IN IF ~info.found THEN unchanged("false")
             ELSE IF info.word # word THEN unchanged("false")
             ELSE LET wordRange ==
                        offsetToWordCursor(cur, info.left, info.right)
                      r == replaceWordInline(bl, cur, local, wordRange,
                                             replacement, TRUE)
                  IN [outcome |-> IF r.threw THEN "threw" ELSE "true",
                      blocks |-> r.blocks, cursor |-> r.cursor,
                      line |-> r.line, log |-> r.log]

\* ------------------------------------------------------------------------
\* State
\* ------------------------------------------------------------------------

VARIABLES
  text,       \* extractWord: the `text` argument
  offset,     \* extractWord: the `offset` argument
  wordDone,   \* extractWord: has the call returned
  wordInfo,   \* extractWord: the returned value
  selection,  \* validateLineCursor: the `selection` argument
  validDone,  \* validateLineCursor: has the call ended
  valid,      \* validateLineCursor: "true", "false" or "TypeError"
  blocks,     \* ContentState: the document tree, key -> block
  cursor,     \* ContentState: this.cursor
  line,       \* the line cursor object handed to replaceWordInline
  call,       \* the call made: its arguments and the state it started in
  outcome,    \* "none", or how the call ended
  log,        \* the notifications the call issued, in order
  heap,       \* offsetToWordCursor: the objects, [pos, blk]
  lc,         \* offsetToWordCursor: the `lineCursor` argument
  wc,         \* offsetToWordCursor: the returned cursor
  cursorCall  \* offsetToWordCursor: the call made and the mutations since

wordVars == <<text, offset, wordDone, wordInfo>>

validVars == <<selection, validDone, valid>>

docVars == <<blocks, cursor, line, call, outcome, log>>

cursorVars == <<heap, lc, wc, cursorCall>>

vars == <<wordVars, validVars, docVars, cursorVars>>

\* no call of extractWord is modelled
IdleWord ==
  /\ text = << >>
  /\ offset = 0
  /\ wordDone = FALSE
  /\ wordInfo = Null

\* no call of validateLineCursor is modelled
IdleValid ==
  /\ selection = [isNull |-> TRUE, start |-> AbsentPosition,
                  end |-> AbsentPosition, affiliation |-> AbsentAffiliation]
  /\ validDone = FALSE
  /\ valid = "false"

NoPosition == [key |-> Undefined, offset |-> 0, block |-> NoBlock]

NoCursor == [start |-> NoPosition, end |-> NoPosition]

NoCall ==
  [op |-> "none", line |-> NoCursor, wordCursor |-> NoCursor,
   word |-> << >>, replacement |-> << >>, setCursor |-> FALSE,
   blocks |-> << >>, cursor |-> NoCursor]

\* no call on the content state is modelled
IdleDoc ==
  /\ blocks = << >>
  /\ cursor = NoCursor
  /\ line = NoCursor
  /\ call = NoCall
  /\ outcome = "none"
  /\ log = << >>

NoCursorCall ==
  [done |-> FALSE, left |-> 0, right |-> 0, mutations |-> 0]

\* no call of offsetToWordCursor is modelled
IdleCursor ==
  /\ heap = [pos |-> << >>, blk |-> << >>]
  /\ lc = [start |-> NoRef, end |-> NoRef]
  /\ wc = [start |-> NoRef, end |-> NoRef]
  /\ cursorCall = NoCursorCall

\* ------------------------------------------------------------------------
\* Specification of extractWord as a pure function
\* ------------------------------------------------------------------------

Alphabet == {"a", "1", ".", "-", " "}

\* "price 3.14 end"
Price314 ==
  <<"p", "r", "i", "c", "e", " ", "3", ".", "1", "4", " ", "e", "n", "d">>

\* "hello world"
HelloWorld == <<"h", "e", "l", "l", "o", " ", "w", "o", "r", "l", "d">>

\* "abc123"
Abc123 == <<"a", "b", "c", "1", "2", "3">>

Texts ==
  UNION {[1..n -> Alphabet] : n \in 0..MaxLen}
    \cup {Price314, HelloWorld, Abc123}

InitWord ==
  /\ text \in Texts
  /\ offset \in -1..(Len(text) + 1)
  /\ wordDone = FALSE
  /\ wordInfo = Null
  /\ IdleValid
  /\ IdleDoc
  /\ IdleCursor

ExtractWord ==
  /\ ~wordDone
  /\ wordDone' = TRUE
  /\ wordInfo' = extractWord(text, offset)
  /\ UNCHANGED <<text, offset, validVars, docVars, cursorVars>>

NextWord == ExtractWord

SpecWord == InitWord /\ [][NextWord]_vars

\* ------------------------------------------------------------------------
\* Specification of validateLineCursor as a pure function
\* ------------------------------------------------------------------------

Keys == {"k1", "k2"}

BlockShapes ==
  {AbsentBlock} \cup
  [present : {TRUE}, functionType : {"paragraphContent", "codeContent"},
   lang : {Undefined, "js"}]

StartPositions ==
  {AbsentPosition} \cup
  [present : {TRUE}, key : Keys, hasOffset : BOOLEAN, block : BlockShapes]

EndPositions ==
  {AbsentPosition} \cup
  [present : {TRUE}, key : Keys, hasOffset : BOOLEAN, block : {AbsentBlock}]

Affiliations ==
  {AbsentAffiliation} \cup
  [present : {TRUE},
   types : {<< >>, <<"pre">>, <<"span">>, <<"pre", "span">>}]

Selections ==
  {[isNull |-> TRUE, start |-> AbsentPosition, end |-> AbsentPosition,
    affiliation |-> AbsentAffiliation]} \cup
  [isNull : {FALSE}, start : StartPositions, end : EndPositions,
   affiliation : Affiliations]

InitValidate ==
  /\ selection \in Selections
  /\ validDone = FALSE
  /\ valid = "false"
  /\ IdleWord
  /\ IdleDoc
  /\ IdleCursor

ValidateLineCursor ==
  /\ ~validDone
  /\ validDone' = TRUE
  /\ valid' = validateLineCursor(selection)
  /\ UNCHANGED <<selection, wordVars, docVars, cursorVars>>

NextValidate == ValidateLineCursor

SpecValidate == InitValidate /\ [][NextValidate]_vars

\* ------------------------------------------------------------------------
\* Specification of the replacement engine
\* ------------------------------------------------------------------------

DocAlphabet == {"a", " "}

\* "abc def" and "xyz"
AbcDef == <<"a", "b", "c", " ", "d", "e", "f">>

Xyz == <<"x", "y", "z">>

DocTexts == UNION {[1..n -> DocAlphabet] : n \in 0..MaxTextLen}

\* functionType and lang of a block
BlockKinds ==
  {<<"paragraphContent", Undefined>>, <<"codeContent", Undefined>>,
   <<"codeContent", "js">>}

\* the text of the second block
OtherText == <<"a">>

Documents ==
  {[k \in Keys |->
      IF k = "k1"
      THEN [text |-> t, functionType |-> kind[1], lang |-> kind[2]]
      ELSE [text |-> OtherText, functionType |-> "paragraphContent",
            lang |-> Undefined]] : t \in DocTexts, kind \in BlockKinds}
  \cup
  {[k \in Keys |->
      [text |-> IF k = "k1" THEN AbcDef ELSE OtherText,
       functionType |-> "paragraphContent", lang |-> Undefined]]}

\* keys a live selection can carry: "k3" is the key of no block
SelectionKeys == Keys \cup {"k3"}

Offsets == 0..(MaxTextLen + 1)

\* the values of this.cursor
StoredCursors ==
  {[start |-> [key |-> k1, offset |-> o, block |-> NoBlock],
    end |-> [key |-> k2, offset |-> o, block |-> NoBlock]] :
     k1 \in Keys, k2 \in Keys, o \in {0, 1}}

\* the line cursors handed to replaceWordInline: valid block references
LineCursors ==
  {[start |-> [key |-> k1, offset |-> 0, block |-> k1],
    end |-> [key |-> k2, offset |-> 1, block |-> NoBlock]] :
     k1 \in Keys, k2 \in Keys}

WordCursors ==
  {[start |-> [key |-> k1, offset |-> l, block |-> NoBlock],
    end |-> [key |-> k2, offset |-> r, block |-> NoBlock]] :
     k1 \in Keys, k2 \in Keys, l \in Offsets, r \in Offsets}
  \cup
  {[start |-> [key |-> k, offset |-> 4, block |-> NoBlock],
    end |-> [key |-> k, offset |-> 7, block |-> NoBlock]] : k \in Keys}

\* the values of selection.getCursorRange()
CursorRanges ==
  {[start |-> [key |-> k1, offset |-> o, block |-> NoBlock],
    end |-> [key |-> k2, offset |-> o, block |-> NoBlock]] :
     k1 \in SelectionKeys, k2 \in SelectionKeys, o \in Offsets}

Replacements == {<< >>, <<"b">>, Xyz}

Words == {<<"a">>, <<"a", "a">>}

Init ==
  /\ blocks \in Documents
  /\ cursor \in StoredCursors
  /\ line = NoCursor
  /\ call = NoCall
  /\ outcome = "none"
  /\ log = << >>
  /\ IdleWord
  /\ IdleValid
  /\ IdleCursor

ReplaceWordInline ==
  /\ outcome = "none"
  /\ \E ln \in LineCursors, wordCursor \in WordCursors,
        replacement \in Replacements, setCursor \in BOOLEAN :
       LET r == replaceWordInline(blocks, cursor, ln, wordCursor,
                                  replacement, setCursor)
       IN /\ call' = [op |-> "replaceWordInline", line |-> ln,
                      wordCursor |-> wordCursor, word |-> << >>,
                      replacement |-> replacement, setCursor |-> setCursor,
                      blocks |-> blocks, cursor |-> cursor]
          /\ outcome' = IF r.threw THEN "threw" ELSE "returned"
          /\ blocks' = r.blocks
          /\ cursor' = r.cursor
          /\ line' = r.line
          /\ log' = r.log
  /\ UNCHANGED <<wordVars, validVars, cursorVars>>

ReplaceCurrentWordInlineUnsafe ==
  /\ outcome = "none"
  /\ \E range \in CursorRanges, word \in Words, replacement \in Replacements :
       LET r == replaceCurrentWordInlineUnsafe(blocks, cursor, range, word,
                                               replacement)
       IN /\ call' = [op |-> "_replaceCurrentWordInlineUnsafe",
                      line |-> [start |-> [range.start EXCEPT
                                  !.block = getBlock(blocks, range.start.key)],
                                end |-> range.end],
                      wordCursor |-> NoCursor, word |-> word,
                      replacement |-> replacement, setCursor |-> TRUE,
                      blocks |-> blocks, cursor |-> cursor]
          /\ outcome' = r.outcome
          /\ blocks' = r.blocks
          /\ cursor' = r.cursor
          /\ line' = r.line
          /\ log' = r.log
  /\ UNCHANGED <<wordVars, validVars, cursorVars>>

Next == ReplaceWordInline \/ ReplaceCurrentWordInlineUnsafe

Spec == Init /\ [][Next]_vars

\* ------------------------------------------------------------------------
\* Specification of offsetToWordCursor on a heap
\* ------------------------------------------------------------------------

\* the one block object of the initial heap
InitialBlocks == <<[text |-> <<"a">>]>>

\* the position objects of a line cursor
PositionObjects ==
  [key : Keys, offset : {0, 1}, block : {NoRef, 1}]

\* the text a mutation writes into a block object
MutatedText == <<"z">>

InitCursor ==
  /\ \/ \E s \in PositionObjects, e \in PositionObjects :
          /\ heap = [pos |-> <<s, e>>, blk |-> InitialBlocks]
          /\ lc = [start |-> 1, end |-> 2]
     \/ \E s \in PositionObjects :       \* start and end are one object
          /\ heap = [pos |-> <<s>>, blk |-> InitialBlocks]
          /\ lc = [start |-> 1, end |-> 1]
  /\ wc = [start |-> NoRef, end |-> NoRef]
  /\ cursorCall = NoCursorCall
  /\ IdleWord
  /\ IdleValid
  /\ IdleDoc

OffsetToWordCursor ==
  /\ ~cursorCall.done
  /\ \E left \in Offsets, right \in Offsets :
       LET r == offsetToWordCursorOnHeap(heap, lc, left, right)
       IN /\ heap' = r.heap
          /\ wc' = r.cursor
          /\ cursorCall' = [done |-> TRUE, left |-> left, right |-> right,
                            mutations |-> 0]
  /\ UNCHANGED <<lc, wordVars, validVars, docVars>>

\* the caller assigns a field of the returned start or end, or the text of
\* the block object it refers to
MutateWordCursor ==
  /\ cursorCall.done
  /\ cursorCall.mutations < MaxMutations
  /\ \E id \in {wc.start, wc.end} :
       \/ \E o \in Offsets : heap' = [heap EXCEPT !.pos[id].offset = o]
       \/ \E k \in Keys : heap' = [heap EXCEPT !.pos[id].key = k]
       \/ /\ heap.pos[id].block # NoRef
          /\ heap' = [heap EXCEPT !.blk[heap.pos[id].block].text = MutatedText]
  /\ cursorCall' = [cursorCall EXCEPT !.mutations = @ + 1]
  /\ UNCHANGED <<lc, wc, wordVars, validVars, docVars>>

NextCursor == OffsetToWordCursor \/ MutateWordCursor

SpecCursor == InitCursor /\ [][NextCursor]_vars

\* ------------------------------------------------------------------------
\* Vocabulary of the word scanner's contract
\* ------------------------------------------------------------------------

\* The separators as documented: whitespace and the listed punctuation.
DocumentedSeparators == ListedPunctuation \cup Whitespace

\* End of the word-constituent token that starts at i, or -1: a
\* decimal-number-like token, or a maximal run of non-separators.
TokenEnd(txt, i) ==
  IF NumberMatchEnd(txt, i) >= 0 THEN NumberMatchEnd(txt, i)
  ELSE IF i < Len(txt) /\ At(txt, i) \notin DocumentedSeparators
       THEN SkipUntil(txt, i, DocumentedSeparators)
       ELSE -1

\* The word-constituent tokens of the text from index i on, as <<start, end>>.
RECURSIVE TokensFrom(_, _)
TokensFrom(txt, i) ==
  IF i >= Len(txt) THEN {}
  ELSE IF TokenEnd(txt, i) >= 0
       THEN {<<i, TokenEnd(txt, i)>>} \cup TokensFrom(txt, TokenEnd(txt, i))
       ELSE TokensFrom(txt, i + 1)

Tokens(txt) == TokensFrom(txt, 0)

TokenContains(txt, o) == \E t \in Tokens(txt) : t[1] <= o /\ o < t[2]

\* o lies inside a decimal-number-like token
InNumberToken(txt, o) == \E i \in 0..o : NumberMatchEnd(txt, i) > o

\* first index of the run of non-separators that contains index o
RECURSIVE RunStart(_, _)
RunStart(txt, o) ==
  IF o > 0 /\ At(txt, o - 1) \notin DocumentedSeparators
  THEN RunStart(txt, o - 1) ELSE o

\* an extractWord call with an offset in [0, len] has returned
WordReturned == wordDone /\ offset \in 0..Len(text)

\* ------------------------------------------------------------------------
\* Claims about extractWord
\* ------------------------------------------------------------------------

\* C1: whenever extractWord(T, o), o in [0, len(T)], returns a span
\* {left, right, word}, then left <= right, word = T[left..right] and word
\* is not empty.
WordSpanWellFormed ==
  (WordReturned /\ wordInfo.found) =>
    /\ wordInfo.left <= wordInfo.right
    /\ wordInfo.word = Slice(text, wordInfo.left, wordInfo.right)
    /\ wordInfo.word # << >>

\* C2: extractWord("price 3.14 end", 8) returns
\* {left: 6, right: 10, word: "3.14"}: the decimal-number token is kept
\* intact.
NumericTokenIntact ==
  (wordDone /\ text = Price314 /\ offset = 8) =>
    wordInfo = [found |-> TRUE, left |-> 6, right |-> 10,
                word |-> <<"3", ".", "1", "4">>]

\* C3: letters and digits are word constituents: for an offset on a
\* non-separator character outside any decimal-number token, extractWord
\* returns the maximal run of non-separator characters that contains it.
MaximalRunReturned ==
  LET o == ClampOffset(text, offset)
  IN (/\ WordReturned
      /\ Len(text) > 0
      /\ At(text, o) \notin DocumentedSeparators
      /\ ~InNumberToken(text, o)) =>
       wordInfo =
         [found |-> TRUE,
          left |-> RunStart(text, o),
          right |-> SkipUntil(text, o, DocumentedSeparators),
          word |-> Slice(text, RunStart(text, o),
                         SkipUntil(text, o, DocumentedSeparators))]

\* C4: extractWord(T, o), o in [0, len(T)], returns null if and only if no
\* word-constituent token of T contains the clamped offset.
NullIffNoToken ==
  WordReturned =>
    ((wordInfo = Null) <=>
       (Len(text) = 0 \/ ~TokenContains(text, ClampOffset(text, offset))))

\* ------------------------------------------------------------------------
\* Claims about validateLineCursor
\* ------------------------------------------------------------------------

\* the eligibility rules of a selection
Eligible(sel) ==
  /\ ~sel.isNull
  /\ sel.start.present /\ sel.start.hasOffset
  /\ sel.end.present /\ sel.end.hasOffset
  /\ sel.start.key = sel.end.key
  /\ sel.start.block.present
  /\ ~(/\ sel.start.block.functionType = "codeContent"
       /\ sel.start.block.lang # Undefined)
  /\ ~(/\ sel.affiliation.present
       /\ Len(sel.affiliation.types) = 1
       /\ sel.affiliation.types[1] = "pre")

\* C9: validateLineCursor(selection) returns true exactly when all
\* eligibility rules hold, and returns false (never throws) for every
\* selection that violates a rule, a missing selection, a missing start or
\* end and a position without an offset included.
ValidateIffEligible ==
  validDone => valid = (IF Eligible(selection) THEN "true" ELSE "false")

\* ------------------------------------------------------------------------
\* Claims about replaceWordInline
\* ------------------------------------------------------------------------

\* replaceWordInline was called
Replaced == call.op = "replaceWordInline"

\* the block the line cursor of the call belongs to
OwningBlock == call.line.start.block

\* the hard preconditions, on the arguments of the call and the state it
\* started in
HardPreconditionViolated ==
  \/ call.wordCursor.start.key # call.wordCursor.end.key
  \/ call.line.start.key # call.line.end.key
  \/ call.wordCursor.start.offset > call.wordCursor.end.offset
  \/ call.line.start.key # call.wordCursor.end.key
  \/ Len(call.blocks[OwningBlock].text) < call.wordCursor.end.offset

\* C5: when a hard precondition is violated replaceWordInline reports a
\* failure and the block texts, the line's cursor and the active cursor are
\* unchanged and no notification is issued.
AbortsBeforeMutation ==
  (Replaced /\ HardPreconditionViolated) =>
    /\ outcome = "threw"
    /\ blocks = call.blocks
    /\ line = call.line
    /\ cursor = call.cursor
    /\ log = << >>

\* witness of C5: a call with inverted offsets and otherwise matching
\* cursors was rejected
InvertedOffsetsRejected ==
  /\ Replaced
  /\ call.wordCursor.start.key = call.wordCursor.end.key
  /\ call.line.start.key = call.line.end.key
  /\ call.line.start.key = call.wordCursor.end.key
  /\ call.wordCursor.start.offset > call.wordCursor.end.offset
  /\ Len(call.blocks[OwningBlock].text) >= call.wordCursor.start.offset
  /\ outcome = "threw"

\* C6: when all preconditions hold, the text of the owning block after the
\* call is old[0..left] + replacement + old[right..], of length
\* len(old) - (right - left) + len(replacement).
SpliceIsExact ==
  (Replaced /\ ~HardPreconditionViolated) =>
    LET old == call.blocks[OwningBlock].text
        new == blocks[OwningBlock].text
        left == call.wordCursor.start.offset
        right == call.wordCursor.end.offset
    IN /\ new = SubSeq(old, 1, left) \o call.replacement
                  \o SubSeq(old, right + 1, Len(old))
       /\ Len(new) = Len(old) - (right - left) + Len(call.replacement)
       /\ \A i \in 1..left : new[i] = old[i]
       /\ \A i \in (right + 1)..Len(old) :
            new[i - (right - left) + Len(call.replacement)] = old[i]

\* witness of C6: "abc def" with word cursor (4, 7) and replacement "xyz"
\* became "abc xyz"
AbcDefBecameAbcXyz ==
  /\ Replaced
  /\ outcome = "returned"
  /\ call.blocks[OwningBlock].text = AbcDef
  /\ call.wordCursor.start.offset = 4
  /\ call.wordCursor.end.offset = 7
  /\ call.replacement = Xyz
  /\ blocks[OwningBlock].text = <<"a", "b", "c", " ", "x", "y", "z">>

\* C7: on every successful replaceWordInline call, setCursor true or false,
\* partialRender, dispatchSelectionChange and dispatchChange are issued once
\* each, in that order, each with the spliced text and the updated cursor in
\* place.
NotifiedOnceInOrderAfterSplice ==
  (Replaced /\ outcome = "returned") =>
    /\ Len(log) = 3
    /\ log[1].name = "partialRender"
    /\ log[2].name = "dispatchSelectionChange"
    /\ log[3].name = "dispatchChange"
    /\ \A i \in 1..3 :
         /\ log[i].text = blocks[OwningBlock].text
         /\ log[i].text =
              SubSeq(call.blocks[OwningBlock].text, 1,
                     call.wordCursor.start.offset)
                \o call.replacement
                \o SubSeq(call.blocks[OwningBlock].text,
                          call.wordCursor.end.offset + 1,
                          Len(call.blocks[OwningBlock].text))
         /\ log[i].cursor = cursor

\* witness of C7: a successful call without cursor update that changed the
\* text has issued its notifications
NotifiedAfterTextChange ==
  /\ Replaced
  /\ outcome = "returned"
  /\ ~call.setCursor
  /\ blocks[OwningBlock].text # call.blocks[OwningBlock].text
  /\ Len(log) = 3

\* C8: after a successful replaceWordInline with setCursor = true the line's
\* start and end and the active cursor's start and end are the same
\* position, wordCursor.start with offset = left + len(replacement); with
\* setCursor = false the line's cursor and the active cursor are unchanged.
CursorAfterReplacement ==
  (Replaced /\ outcome = "returned") =>
    IF call.setCursor
    THEN LET caret ==
               [call.wordCursor.start EXCEPT
                  !.offset = call.wordCursor.start.offset
                               + Len(call.replacement)]
         IN /\ line.start = caret /\ line.end = caret
            /\ cursor.start = caret /\ cursor.end = caret
    ELSE line = call.line /\ cursor = call.cursor

\* witness of C8: a successful call with setCursor = true moved the active
\* cursor behind the replacement of a non-empty word
CaretMovedBehindReplacement ==
  /\ Replaced
  /\ outcome = "returned"
  /\ call.setCursor
  /\ call.wordCursor.start.offset < call.wordCursor.end.offset
  /\ call.replacement # << >>
  /\ cursor # call.cursor
  /\ cursor.start.offset =
       call.wordCursor.start.offset + Len(call.replacement)

\* ------------------------------------------------------------------------
\* Claims about _replaceCurrentWordInlineUnsafe
\* ------------------------------------------------------------------------

\* C10: _replaceCurrentWordInlineUnsafe never throws: it returns true or
\* false, and when it does not return true the block texts and the cursors
\* are unchanged and no notification is issued.
UnsafeNeverThrows ==
  (call.op = "_replaceCurrentWordInlineUnsafe") =>
    /\ outcome \in {"true", "false"}
    /\ (outcome # "true") =>
         /\ blocks = call.blocks
         /\ cursor = call.cursor
         /\ line = call.line
         /\ log = << >>

\* ------------------------------------------------------------------------
\* Claims about the scan start of extractWord
\* ------------------------------------------------------------------------

\* extractWord with the token scan started at index 0 instead of behind the
\* nearest preceding space
extractWordFromZero(txt, offset0) ==
  IF Len(txt) = 0 THEN Null
  ELSE LET o == ClampOffset(txt, offset0)
           left == ScanLeft(txt, o, 0, -1)
           match == WordSeparatorsExec(txt, o)
           right == IF match.found THEN match.index ELSE Len(txt)
       IN IF left <= -1 THEN Null
          ELSE [found |-> TRUE, left |-> left, right |-> right,
                word |-> Slice(txt, left, right)]

\* C12: starting the token scan behind the nearest space that precedes the
\* offset never changes the outcome: extractWord(T, o) returns what the
\* variant scanning from index 0 returns.
ScanStartIsTransparent ==
  wordDone => wordInfo = extractWordFromZero(text, offset)

\* witness of C12: a word was found by a scan that started behind a space,
\* with a non-space separator right before the word
WordFoundBehindSpaceAndSeparator ==
  /\ wordDone
  /\ wordInfo.found
  /\ LastIndexOf(text, " ", ClampOffset(text, offset) - 1) + 1 > 0
  /\ wordInfo.left > 0
  /\ At(text, wordInfo.left - 1) \in {"-", "."}
  /\ wordInfo.word # << >>

\* ------------------------------------------------------------------------
\* Claims about offsetToWordCursor
\* ------------------------------------------------------------------------

\* the fields of position object id of heap h, the text of its block in
\* place of the reference (<< >> when it has no block)
PositionValue(h, id) ==
  [key |-> h.pos[id].key, offset |-> h.pos[id].offset,
   block |-> IF h.pos[id].block = NoRef THEN << >>
             ELSE <<h.blk[h.pos[id].block].text>>]

CursorValue(h, cur) ==
  [start |-> PositionValue(h, cur.start), end |-> PositionValue(h, cur.end)]

\* C11: offsetToWordCursor(lc, l, r) returns a cursor with start.offset = l
\* and end.offset = r and the other fields of lc.start and lc.end copied; lc
\* is not modified by the call, and no later mutation of the returned start
\* or end changes lc.
WordCursorIsIndependentCopy ==
  [][/\ (~cursorCall.done /\ cursorCall'.done) =>
          /\ CursorValue(heap', wc') =
               [start |-> [PositionValue(heap, lc.start)
                             EXCEPT !.offset = cursorCall'.left],
                end |-> [PositionValue(heap, lc.end)
                           EXCEPT !.offset = cursorCall'.right]]
     /\ lc' = lc
     /\ CursorValue(heap', lc') = CursorValue(heap, lc)]_vars

\* witness of C11: the cursor returned for a line cursor whose start and end
\* are one object with a block has been mutated twice, a block text included
CollapsedCursorCopyMutated ==
  /\ cursorCall.done
  /\ cursorCall.left # cursorCall.right
  /\ lc.start = lc.end
  /\ heap.pos[lc.start].block # NoRef
  /\ cursorCall.mutations = 2
  /\ heap.pos[wc.end].block # NoRef
  /\ heap.blk[heap.pos[wc.end].block].text = MutatedText
  /\ heap.pos[wc.end].offset # cursorCall.right

====
